---- MODULE Spec2Model ----
(***************************************************************************)
(* Plant monitor firmware (Zephyr, src/src/main.c): boot sequence of       *)
(* main(), the periodic publish_work_handler with its publish / cache /    *)
(* reconnect paths, the persisted device UUID and the cache file.          *)
(***************************************************************************)
EXTENDS Integers, Sequences, FiniteSets, TLC

(***************************************************************************)
(* Bounds of the model.                                                    *)
(***************************************************************************)
\* handler runs explored over the life of the device
MaxTicks == 4
\* power cycles explored (the first boot included)
MaxBoots == 2
\* the cache bound the specification asks for; the source configures none
CacheBound == 3
\* calls of button_pressed explored
MaxPresses == 3

(***************************************************************************)
(* Program constants.                                                      *)
(***************************************************************************)
POLLING_INTERVAL == 60000
MAX_RECONNECT_ATTEMPTS == 3
MQTT_PUBLISH_TOPIC == "/devices/plants/"
BUTTON_DEBOUNCE_TIME == 200

(***************************************************************************)
(* Inputs: what the drivers, the file system, the settings backend, the    *)
(* MQTT library and the random source can return.                          *)
(***************************************************************************)
Sensors == {"aht10", "soil", "light", "battery"}
\* values a sensor can genuinely read (0.0 is one of them)
Readings == {0, 1}
\* one read: its return code and the value left in the buffer
SensorOutcomes ==
    {[ret |-> -5, val |-> 0]} \cup {[ret |-> 0, val |-> v] : v \in Readings}
\* the hardware explored: every sensor reads v, and at most one of them is faulty
Healthy(v) == [s \in Sensors |-> [ret |-> 0, val |-> v]]
SensorEnvs ==
    {Healthy(v) : v \in Readings} \cup
    {[Healthy(v) EXCEPT ![s] = [ret |-> -5, val |-> 0]] : s \in Sensors, v \in Readings}
\* mqtt_publish: 0, a transient error (-EAGAIN) or a fatal one (-EINVAL)
PubRets == {0, -11, -22}
\* mqtt_connect: 0 or -ECONNREFUSED
ConnRets == {0, -111}
\* settings_load_subtree: 0 or -EIO
LoadRets == {0, -5}
\* fs_open / fs_write as seen by cache_data
FsOutcomes == {"ok", "open_fail", "write_fail"}
\* how long one handler run takes, in ms
Durations == {0, 500}
\* sys_rand32_get() & 0xFF, sixteen times
RandInputs == {[i \in 1..16 |-> 255], [i \in 1..16 |-> (i * 37) % 256]}
\* the same, ranging over every value of byte 6 and the corner values of
\* byte 8 (the second byte and the fourth of the pair at indexes 7 and 9)
UuidInputs ==
    {[i \in 1..16 |-> IF i = 7 THEN a ELSE IF i = 9 THEN b ELSE (i * 37 + a + b) % 256] :
        a \in 0..255, b \in {0, 63, 64, 127, 128, 191, 192, 255}}
\* Times of the debounce are pairs <<hi, lo>> of 16-bit limbs standing for
\* hi * 65536 + lo ms, so that a full uint32_t and the uptime beyond it fit.
\* ms between two calls of button_pressed: 1, 199, 200, 201 and 1000, then
\* 2^32 - 201, 2^32 - 200, 2^32 - 1, 2^32, 2^32 + 100 and 2^32 + 201
PressGaps ==
    {<<0, 1>>, <<0, 199>>, <<0, 200>>, <<0, 201>>, <<0, 1000>>,
     <<65535, 65335>>, <<65535, 65336>>, <<65535, 65535>>,
     <<65536, 0>>, <<65536, 100>>, <<65536, 201>>}

NoValue == <<>>
NoDue == -1

VARIABLES
    main_pc,            \* where main() is: "uuid", "devices", "wifi", "mqtt",
                        \* "schedule", "done" (returned 0), "error" (returned -1)
    boots,              \* number of boots so far
    wifi_connected,     \* main.c:53
    reconnect_attempts, \* main.c:54
    settings_uuid,      \* persisted value of KEY_UUID, NoValue when absent
    load_ret,           \* <<r>>: what settings_load_subtree returned this boot
    cache_file,         \* lines of /cache/data.json, oldest first
    broker,             \* messages the broker accepted, in order
    now,                \* k_uptime_get(), ms since boot
    work_due,           \* uptime at which publish_work fires, NoDue if not scheduled
    sensors,            \* the hardware: what each sensor read returns
    latency,            \* the network: how long one handler run takes, in ms
    data,               \* struct plant_data of the latest handler run
    pub_ret,            \* <<r>>: what mqtt_publish returned in the latest run
    fs_ret,             \* <<o>>: how cache_data fared in the latest run
    connect_called,     \* whether the latest handler run called connect_wifi
    entropy,            \* the 16 bytes sys_rand32_get() & 0xFF yields this boot,
                        \* <<>> once generate_and_store_uuid has run
    active,             \* handler invocations in progress
    button_ctx,         \* what the latest button interrupt came upon: "none"
                        \* before any, "pending" a scheduled run, "running" a
                        \* handler in progress
    main_log,           \* what main() has called or reported this boot, in order
    conn_ret,           \* <<r>>: what mqtt_connect returned this boot
    last_press_time,    \* button_handler.c:16, a uint32_t, in limbs
    press_uptime,       \* the uptime, not truncated, at the latest call of
                        \* button_pressed, in limbs
    accepted_at,        \* the uptime, not truncated, of the press last accepted
    presses,            \* calls of button_pressed so far
    ticks,              \* handler runs so far
    streak              \* consecutive runs since boot whose publish failed
                        \* transiently and whose snapshot cache_data wrote

vars == <<main_pc, boots, wifi_connected, reconnect_attempts, settings_uuid,
          load_ret, cache_file, broker, now, work_due, sensors, latency,
          data, pub_ret, fs_ret, connect_called, entropy, active, button_ctx,
          main_log, conn_ret, last_press_time, press_uptime, accepted_at, presses,
          ticks, streak>>

\* the state of button_handler.c
debounce == <<last_press_time, press_uptime, accepted_at, presses>>

(***************************************************************************)
(* struct plant_data data = {0}: the char arrays are empty strings, held   *)
(* as sequences of characters like the UUID string.                        *)
(***************************************************************************)
ZeroData ==
    [plant_id |-> <<>>, plant_name |-> <<>>, plant_variety |-> <<>>,
     plant_location |-> <<>>, temperature |-> 0, humidity |-> 0,
     soil_moisture |-> 0, light_level |-> 0, battery_level |-> 0,
     timestamp |-> 0]

(***************************************************************************)
(* read_sensors: every read is attempted; a failed read stores 0.0.        *)
(***************************************************************************)
read_sensors(d, env, uptime) ==
    [d EXCEPT
       !.temperature = IF env["aht10"].ret # 0 THEN 0 ELSE env["aht10"].val,
       !.humidity = IF env["aht10"].ret # 0 THEN 0 ELSE d.humidity,
       !.soil_moisture = IF env["soil"].ret # 0 THEN 0 ELSE env["soil"].val,
       !.light_level = IF env["light"].ret # 0 THEN 0 ELSE env["light"].val,
       !.battery_level = IF env["battery"].ret # 0 THEN 0 ELSE env["battery"].val,
       !.timestamp = uptime]

(***************************************************************************)
(* The JSON text both publish_data and cache_data format from the struct.  *)
(***************************************************************************)
Payload(d) ==
    <<<<"plantId", d.plant_id>>, <<"timestamp", d.timestamp>>,
      <<"plantName", d.plant_name>>, <<"plantVariety", d.plant_variety>>,
      <<"plantLocation", d.plant_location>>,
      <<"temperature", d.temperature>>, <<"humidity", d.humidity>>,
      <<"soilMoisture", d.soil_moisture>>, <<"lightLevel", d.light_level>>,
      <<"batteryLevel", d.battery_level>>>>

Topic(d) == <<MQTT_PUBLISH_TOPIC, d.plant_id>>

(***************************************************************************)
(* cache_data: append one line to the cache file unless open or write      *)
(* fails.  Nothing is ever read back or removed.                           *)
(***************************************************************************)
cache_data(file, d, fs) ==
    IF fs = "open_fail" THEN file
    ELSE IF fs = "write_fail" THEN file
    ELSE Append(file, Payload(d))

\* a connect that fails and leaves the flag as it was
connect_wifi_failing(connected) == connected

(***************************************************************************)
(* connect_wifi: the placeholder sets the flag.                            *)
(***************************************************************************)
connect_wifi(connected) == TRUE

\* an aws_mqtt_init that does not look at what mqtt_connect returned
aws_mqtt_init_unchecked(connected, ret) == connected

(***************************************************************************)
(* aws_mqtt_init: a failed mqtt_connect clears the flag.                   *)
(***************************************************************************)
aws_mqtt_init(connected, ret) == IF ret # 0 THEN FALSE ELSE connected

(***************************************************************************)
(* UUID rendering of generate_and_store_uuid.                              *)
(***************************************************************************)
HexDigits == <<"0", "1", "2", "3", "4", "5", "6", "7",
               "8", "9", "a", "b", "c", "d", "e", "f">>

Hex2(b) == <<HexDigits[(b \div 16) + 1], HexDigits[(b % 16) + 1]>>

\* version and variant written over the whole byte
SetVersionVariant_whole(uuid) == [uuid EXCEPT ![7] = 64, ![9] = 128]

\* lines 154-155; uuid[6] and uuid[8] of the source are indexes 7 and 9
SetVersionVariant(uuid) ==
    [uuid EXCEPT ![7] = (uuid[7] % 16) + 64, ![9] = (uuid[9] % 64) + 128]

FormatUuid(u) ==
    Hex2(u[1]) \o Hex2(u[2]) \o Hex2(u[3]) \o Hex2(u[4]) \o <<"-">> \o
    Hex2(u[5]) \o Hex2(u[6]) \o <<"-">> \o
    Hex2(u[7]) \o Hex2(u[8]) \o <<"-">> \o
    Hex2(u[9]) \o Hex2(u[10]) \o <<"-">> \o
    Hex2(u[11]) \o Hex2(u[12]) \o Hex2(u[13]) \o Hex2(u[14]) \o
    Hex2(u[15]) \o Hex2(u[16])

\* a UUID regenerated on every boot, whatever the settings backend reports
generate_and_store_uuid_always(stored, ret, rand, save_ok) ==
    IF save_ok THEN FormatUuid(SetVersionVariant(rand)) ELSE stored

(***************************************************************************)
(* generate_and_store_uuid: the stored value after the call.  A new UUID   *)
(* is generated and saved only when settings_load_subtree fails.           *)
(***************************************************************************)
generate_and_store_uuid(stored, ret, rand, save_ok) ==
    IF ret < 0
    THEN IF save_ok THEN FormatUuid(SetVersionVariant(rand)) ELSE stored
    ELSE stored

\* a k_work_schedule that leaves the work item unscheduled
k_work_schedule_dropped(t) == NoDue

(***************************************************************************)
(* k_work_schedule(&publish_work, K_MSEC(POLLING_INTERVAL)) called at      *)
(* uptime t: the uptime at which the work item fires next.                 *)
(***************************************************************************)
k_work_schedule(t) == t + POLLING_INTERVAL

\* everything but the random source
InitRam ==
    /\ main_pc = "uuid"
    /\ boots = 1
    /\ wifi_connected = FALSE
    /\ reconnect_attempts = 0
    /\ settings_uuid = NoValue
    /\ load_ret = <<>>
    /\ cache_file = <<>>
    /\ broker = <<>>
    /\ now = 0
    /\ work_due = NoDue
    /\ sensors \in SensorEnvs
    /\ latency \in Durations
    /\ data = ZeroData
    /\ pub_ret = <<>>
    /\ fs_ret = <<>>
    /\ connect_called = FALSE
    /\ active = 0
    /\ button_ctx = "none"
    /\ main_log = <<>>
    /\ conn_ret = <<>>
    /\ last_press_time = <<0, 0>>
    /\ press_uptime = <<0, 0>>
    /\ accepted_at = <<0, 0>>
    /\ presses = 0
    /\ ticks = 0
    /\ streak = 0

\* a device out of the factory, its random source yet to be drawn
Init == InitRam /\ entropy \in RandInputs

(***************************************************************************)
(* main(), lines 93-98: settings initialisation and the UUID.              *)
(***************************************************************************)
MainUuid ==
    /\ main_pc = "uuid"
    /\ \E ret \in LoadRets, save_ok \in BOOLEAN :
         /\ settings_uuid' = generate_and_store_uuid(settings_uuid, ret, entropy, save_ok)
         /\ load_ret' = <<ret>>
    /\ entropy' = <<>>
    /\ main_pc' = "devices"
    /\ UNCHANGED <<boots, wifi_connected, reconnect_attempts, cache_file, broker,
                   now, work_due, sensors, latency, data, pub_ret, fs_ret,
                   connect_called, active, button_ctx, ticks, streak>>
    /\ main_log' = Append(main_log, "generate_and_store_uuid")
    /\ UNCHANGED <<conn_ret, debounce>>

(***************************************************************************)
(* main(), lines 100-126: I2C, button, LED, ADC, BLE.  A missing I2C, LED  *)
(* or ADC device makes main return -1.                                     *)
(***************************************************************************)
MainDevices ==
    /\ main_pc = "devices"
    /\ \E i2c_ok \in BOOLEAN, led_ok \in BOOLEAN, adc_ok \in BOOLEAN :
         /\ main_pc' = IF i2c_ok /\ led_ok /\ adc_ok THEN "wifi" ELSE "error"
         /\ main_log' = Append(main_log,
                IF ~i2c_ok THEN "I2C: Device not found."
                ELSE IF ~led_ok THEN "GPIO: LED device not found."
                ELSE IF ~adc_ok THEN "ADC: Device not ready."
                ELSE "ble_provisioning_init")
    /\ UNCHANGED <<conn_ret, debounce>>
    /\ UNCHANGED <<boots, wifi_connected, reconnect_attempts, settings_uuid,
                   load_ret, cache_file, broker, now, work_due, sensors, latency, data,
                   pub_ret, fs_ret, connect_called, entropy, active, button_ctx,
                   ticks, streak>>

(***************************************************************************)
(* main(), line 129.                                                       *)
(***************************************************************************)
MainConnectWifi ==
    /\ main_pc = "wifi"
    /\ wifi_connected' = connect_wifi(wifi_connected)
    /\ main_pc' = "mqtt"
    /\ UNCHANGED <<boots, reconnect_attempts, settings_uuid, load_ret, cache_file,
                   broker, now, work_due, sensors, latency, data, pub_ret, fs_ret,
                   connect_called, entropy, active, button_ctx, ticks, streak>>
    /\ main_log' = Append(main_log, "connect_wifi")
    /\ UNCHANGED <<conn_ret, debounce>>

(***************************************************************************)
(* main(), line 132.                                                       *)
(***************************************************************************)
MainMqttInit ==
    /\ main_pc = "mqtt"
    /\ \E ret \in ConnRets :
         /\ wifi_connected' = aws_mqtt_init(wifi_connected, ret)
         /\ conn_ret' = <<ret>>
    /\ main_log' = Append(main_log, "aws_mqtt_init")
    /\ UNCHANGED debounce
    /\ main_pc' = "schedule"
    /\ UNCHANGED <<boots, reconnect_attempts, settings_uuid, load_ret, cache_file,
                   broker, now, work_due, sensors, latency, data, pub_ret, fs_ret,
                   connect_called, entropy, active, button_ctx, ticks, streak>>

(***************************************************************************)
(* main(), lines 135-138: the first tick is scheduled, main returns 0.     *)
(***************************************************************************)
MainSchedule ==
    /\ main_pc = "schedule"
    /\ work_due' = k_work_schedule(now)
    /\ main_pc' = "done"
    /\ UNCHANGED <<boots, wifi_connected, reconnect_attempts, settings_uuid,
                   load_ret, cache_file, broker, now, sensors, latency, data, pub_ret,
                   fs_ret, connect_called, entropy, active, button_ctx, ticks, streak>>
    /\ main_log' = Append(main_log, "k_work_schedule")
    /\ UNCHANGED <<conn_ret, debounce>>

\* a publish_data without the fallback to the cache
publish_data_uncached(st, d, ret, fs) ==
    IF ret # 0
    THEN st
    ELSE [cache |-> st.cache,
          broker |-> Append(st.broker, [topic |-> Topic(d), payload |-> Payload(d)])]

(***************************************************************************)
(* publish_data: format topic and payload, mqtt_publish; any non-zero      *)
(* return sends the snapshot to cache_data.  st is [cache, broker].        *)
(***************************************************************************)
publish_data(st, d, ret, fs) ==
    IF ret # 0
    THEN [cache |-> cache_data(st.cache, d, fs), broker |-> st.broker]
    ELSE [cache |-> st.cache,
          broker |-> Append(st.broker, [topic |-> Topic(d), payload |-> Payload(d)])]

\* a handler that tries to publish whatever the flag says
publishes_always(connected) == TRUE

(***************************************************************************)
(* publish_work_handler, line 221: the publish branch is taken when the    *)
(* flag is set, the caching branch otherwise.                              *)
(***************************************************************************)
publishes(connected) == connected

\* a comparison that never lets the handler reconnect
may_reconnect_never(attempts) == attempts < 1

(***************************************************************************)
(* publish_work_handler, line 227: connect_wifi is called when the counter *)
(* just incremented is below MAX_RECONNECT_ATTEMPTS.                       *)
(***************************************************************************)
may_reconnect(attempts) == attempts < MAX_RECONNECT_ATTEMPTS

(***************************************************************************)
(* publish_work_handler, lines 218-230: read the sensors into d at uptime  *)
(* t, then publish or cache, count and maybe reconnect.                    *)
(***************************************************************************)
HandlerBody(t) ==
    LET d == read_sensors(ZeroData, sensors, t) IN
    /\ data' = d
    /\ \/ /\ publishes(wifi_connected)
          /\ \E ret \in PubRets :
               \E fs \in (IF ret # 0 THEN FsOutcomes ELSE {"ok"}) :
                 LET st == publish_data([cache |-> cache_file, broker |-> broker],
                                        d, ret, fs) IN
                 /\ cache_file' = st.cache
                 /\ broker' = st.broker
                 /\ pub_ret' = <<ret>>
                 /\ fs_ret' = IF ret # 0 THEN <<fs>> ELSE <<>>
                 /\ streak' = IF ret = -11 /\ fs = "ok" THEN streak + 1 ELSE 0
          /\ reconnect_attempts' = 0
          /\ connect_called' = FALSE
          /\ UNCHANGED wifi_connected
       \/ /\ ~publishes(wifi_connected)
          /\ \E fs \in FsOutcomes :
               /\ cache_file' = cache_data(cache_file, d, fs)
               /\ fs_ret' = <<fs>>
          /\ reconnect_attempts' = reconnect_attempts + 1
          /\ connect_called' = may_reconnect(reconnect_attempts + 1)
          /\ wifi_connected' =
               IF may_reconnect(reconnect_attempts + 1)
               THEN connect_wifi(wifi_connected) ELSE wifi_connected
          /\ pub_ret' = <<>>
          /\ streak' = 0
          /\ UNCHANGED broker
    /\ ticks' = ticks + 1

(***************************************************************************)
(* publish_work_handler, one whole run: read the sensors, publish or       *)
(* cache, count and maybe reconnect, reschedule.                           *)
(***************************************************************************)
publish_work_handler ==
    /\ main_pc = "done"
    /\ work_due # NoDue
    /\ ticks < MaxTicks
    /\ HandlerBody(work_due)
    /\ now' = work_due + latency
    /\ work_due' = k_work_schedule(work_due + latency)
    /\ UNCHANGED <<main_pc, boots, settings_uuid, load_ret, sensors, latency,
                   entropy, active, button_ctx>>
    /\ UNCHANGED <<main_log, conn_ret, debounce>>

(***************************************************************************)
(* A power cycle or sys_reboot: RAM is lost, the settings and the cache    *)
(* file are kept.                                                          *)
(***************************************************************************)
Reboot ==
    /\ boots < MaxBoots
    /\ boots' = boots + 1
    /\ main_pc' = "uuid"
    /\ wifi_connected' = FALSE
    /\ reconnect_attempts' = 0
    /\ load_ret' = <<>>
    /\ now' = 0
    /\ work_due' = NoDue
    /\ data' = ZeroData
    /\ pub_ret' = <<>>
    /\ fs_ret' = <<>>
    /\ streak' = 0
    /\ connect_called' = FALSE
    /\ entropy' \in RandInputs
    /\ active' = 0
    /\ main_log' = <<>>
    /\ conn_ret' = <<>>
    /\ last_press_time' = <<0, 0>>
    /\ press_uptime' = <<0, 0>>
    /\ accepted_at' = <<0, 0>>
    /\ UNCHANGED <<settings_uuid, cache_file, broker, sensors, latency, button_ctx,
                   presses, ticks>>

Next ==
    \/ MainUuid
    \/ MainDevices
    \/ MainConnectWifi
    \/ MainMqttInit
    \/ MainSchedule
    \/ publish_work_handler
    \/ Reboot

Spec == Init /\ [][Next]_vars

\* a callback that runs the handler itself
button_callback_runs_handler(n) == n + 1

(***************************************************************************)
(* button_callback, lines 391-395: it prints and returns; of the n handler *)
(* invocations in progress it starts none and ends none.                   *)
(***************************************************************************)
button_callback(n) == n

(***************************************************************************)
(* The GPIO interrupt registered by button_init (called from main, line    *)
(* 108): it can come at any moment from then on, a handler run included.   *)
(***************************************************************************)
ButtonCallback ==
    /\ main_pc \in {"wifi", "mqtt", "schedule", "done"}
    /\ button_ctx' = IF active > 0 THEN "running" ELSE "pending"
    /\ active' = button_callback(active)
    /\ UNCHANGED <<main_pc, boots, wifi_connected, reconnect_attempts,
                   settings_uuid, load_ret, cache_file, broker, now, work_due,
                   sensors, latency, data, pub_ret, fs_ret, connect_called,
                   entropy, ticks, streak>>
    /\ UNCHANGED <<main_log, conn_ret, debounce>>

(***************************************************************************)
(* publish_work_handler in two steps, so that an interrupt can fall inside *)
(* a run: the work queue takes the due item off the timer and runs lines   *)
(* 216-230 ...                                                             *)
(***************************************************************************)
TickBegin ==
    /\ main_pc = "done"
    /\ work_due # NoDue
    /\ ticks < MaxTicks
    /\ HandlerBody(work_due)
    /\ now' = work_due
    /\ work_due' = NoDue
    /\ active' = active + 1
    /\ UNCHANGED <<main_pc, boots, settings_uuid, load_ret, sensors, latency,
                   entropy, button_ctx>>
    /\ UNCHANGED <<main_log, conn_ret, debounce>>

(***************************************************************************)
(* ... and, latency later, line 233 reschedules and the handler returns.   *)
(***************************************************************************)
TickEnd ==
    /\ main_pc = "done"
    /\ work_due = NoDue
    /\ active > 0
    /\ now' = now + latency
    /\ work_due' = k_work_schedule(now + latency)
    /\ active' = active - 1
    /\ UNCHANGED <<main_pc, boots, wifi_connected, reconnect_attempts,
                   settings_uuid, load_ret, cache_file, broker, sensors,
                   latency, data, pub_ret, fs_ret, connect_called, entropy,
                   button_ctx, ticks, streak>>
    /\ UNCHANGED <<main_log, conn_ret, debounce>>

\* one run of the firmware with the button and the handler interleaved
NextButton ==
    \/ MainUuid
    \/ MainDevices
    \/ MainConnectWifi
    \/ MainMqttInit
    \/ MainSchedule
    \/ TickBegin
    \/ TickEnd
    \/ ButtonCallback

SpecButton == Init /\ [][NextButton]_vars

\* one run of the firmware, power-on to power-off
NextRun ==
    \/ MainUuid
    \/ MainDevices
    \/ MainConnectWifi
    \/ MainMqttInit
    \/ MainSchedule
    \/ publish_work_handler

\* one run with the timer's fairness: a scheduled work item is eventually run
\* by the system work queue
SpecLive == Init /\ [][NextRun]_vars /\ WF_vars(publish_work_handler)

\* the sum of two times
AddTime(a, b) == <<a[1] + b[1] + ((a[2] + b[2]) \div 65536), (a[2] + b[2]) % 65536>>

\* the difference of two times, the high limb negative when b is the later
SubTime(a, b) ==
    <<a[1] - b[1] - (IF a[2] < b[2] THEN 1 ELSE 0), (a[2] - b[2] + 65536) % 65536>>

\* whether a time is above n ms, n below 65536
Above(a, n) == a[1] > 0 \/ (a[1] = 0 /\ a[2] > n)

\* a value as a uint32_t holds it
Uint32(a) == <<a[1] % 65536, a[2]>>

\* k_uptime_get_32(): the low 32 bits of the uptime t
k_uptime_get_32(t) == Uint32(t)

\* the difference taken in a wider signed type
debounce_elapsed_signed(current_time, last) == SubTime(current_time, last)

(***************************************************************************)
(* button_pressed, line 37: current_time - last_press_time in uint32_t.    *)
(***************************************************************************)
debounce_elapsed(current_time, last) == Uint32(SubTime(current_time, last))

(***************************************************************************)
(* button_pressed of handlers/button_handler.c, called gap ms after the    *)
(* call before it (or after boot).                                         *)
(***************************************************************************)
button_pressed ==
    /\ presses < MaxPresses
    /\ \E gap \in PressGaps :
         LET uptime == AddTime(press_uptime, gap)
             current_time == k_uptime_get_32(uptime)
         IN
         /\ press_uptime' = uptime
         /\ IF Above(debounce_elapsed(current_time, last_press_time),
                     BUTTON_DEBOUNCE_TIME)
            THEN /\ last_press_time' = current_time
                 /\ accepted_at' = uptime
            ELSE UNCHANGED <<last_press_time, accepted_at>>
    /\ presses' = presses + 1
    /\ UNCHANGED <<main_pc, boots, wifi_connected, reconnect_attempts,
                   settings_uuid, load_ret, cache_file, broker, now, work_due,
                   sensors, latency, data, pub_ret, fs_ret, connect_called,
                   entropy, active, button_ctx, main_log, conn_ret, ticks,
                   streak>>

\* the debounce alone, on one device
InitDebounce ==
    /\ InitRam
    /\ sensors = Healthy(1)
    /\ latency = 0
    /\ entropy = [i \in 1..16 |-> 255]

NextDebounce == button_pressed

SpecDebounce == InitDebounce /\ [][NextDebounce]_vars

\* the UUID generation alone, over a wide range of random bytes
InitUuid == InitRam /\ entropy \in UuidInputs

NextUuid == MainUuid

SpecUuid == InitUuid /\ [][NextUuid]_vars

(***************************************************************************)
(* Helpers of the properties.                                              *)
(***************************************************************************)
\* a handler run is the step that counts a tick
HandlerStep == ticks' = ticks + 1
\* the handler has run since the last boot
HandlerRan == pub_ret # <<>> \/ fs_ret # <<>>
\* the mqtt_publish failure the specification calls fatal (-EINVAL)
IsFatal(r) == r = -22
\* the payloads of the messages the broker accepted during the step
NewlyDelivered ==
    [i \in 1..(Len(broker') - Len(broker)) |-> broker'[Len(broker) + i].payload]
\* the snapshot field a sensor fills
Field(d, s) ==
    CASE s = "aht10" -> d.temperature
      [] s = "soil" -> d.soil_moisture
      [] s = "light" -> d.light_level
      [] s = "battery" -> d.battery_level

(***************************************************************************)
(* C1: the number of entries in the cache file never exceeds the           *)
(* configured bound.  The source has no bound and never evicts.            *)
(***************************************************************************)
C1_CacheBounded == Len(cache_file) <= CacheBound

(***************************************************************************)
(* C2: on a fresh device that started connected, after three consecutive   *)
(* ticks whose publish failed transiently the cache holds three entries,   *)
(* the device is Disconnected and the reconnect counter is at the bound.   *)
(***************************************************************************)
C2_OutageScenario ==
    (boots = 1 /\ ticks = 3 /\ streak = 3) =>
        /\ Len(cache_file) = 3
        /\ ~wifi_connected
        /\ reconnect_attempts = MAX_RECONNECT_ATTEMPTS

(***************************************************************************)
(* C3: with three entries cached, a tick whose live publish succeeds       *)
(* delivers the three cached entries in their order, empties the cache and *)
(* leaves the reconnect counter at 0.                                      *)
(***************************************************************************)
C3_DrainAfterSuccess ==
    [][(HandlerStep /\ Len(cache_file) = 3 /\ pub_ret' = <<0>>) =>
          /\ cache_file' = <<>>
          /\ SelectSeq(NewlyDelivered,
                       LAMBDA p : \E i \in 1..Len(cache_file) : cache_file[i] = p)
               = cache_file
          /\ reconnect_attempts' = 0]_vars

(***************************************************************************)
(* C5: a tick whose publish fails with a fatal error drops the snapshot:   *)
(* the cache file, the broker and the connectivity flag are as before.     *)
(***************************************************************************)
C5_FatalDropsSnapshot ==
    [][(HandlerStep /\ pub_ret' # <<>> /\ IsFatal(pub_ret'[1])) =>
          /\ cache_file' = cache_file
          /\ broker' = broker
          /\ wifi_connected' = wifi_connected]_vars

(***************************************************************************)
(* C6: in the state right after the connectivity flag turns true the       *)
(* reconnect counter is 0.                                                 *)
(***************************************************************************)
C6_CounterZeroOnConnect ==
    [][(~wifi_connected /\ wifi_connected') => reconnect_attempts' = 0]_vars

(***************************************************************************)
(* C7: the reconnect counter never exceeds MAX_RECONNECT_ATTEMPTS.         *)
(***************************************************************************)
C7_CounterBounded == reconnect_attempts <= MAX_RECONNECT_ATTEMPTS

\* the caching path has run and counted an attempt
C7_Witness == ticks > 0 /\ reconnect_attempts > 0 /\ pub_ret = <<>>

C9_AbsentMarker ==
    HandlerRan =>
        \A s \in Sensors :
            IF sensors[s].ret = 0
            THEN Field(data, s) = sensors[s].val
            ELSE Field(data, s) \notin Readings

(***************************************************************************)
(* C10: once main has scheduled the loop a tick is always pending,         *)
(* whatever the outcome of the tick before, and under the timer's fairness *)
(* a started loop never comes to rest: it ticks on until the ticks         *)
(* explored are used up.                                                   *)
(***************************************************************************)
C10_AlwaysReschedules ==
    /\ [](main_pc = "done" => work_due # NoDue)
    /\ []<>(main_pc # "done" \/ ticks = MaxTicks)

\* a tick in which publish and the cache write both failed ended rescheduled
C10_Witness ==
    /\ main_pc = "done"
    /\ ticks >= 2
    /\ pub_ret = <<-11>>
    /\ fs_ret = <<"open_fail">>
    /\ work_due = now + POLLING_INTERVAL

(***************************************************************************)
(* C11: at most one handler run is in progress, and none is pending while  *)
(* one runs; a button interrupt, whether it comes upon a pending run or a  *)
(* running one, starts no run, schedules none and leaves the connectivity  *)
(* flag and the reconnect counter alone; once main has started the loop    *)
(* the flag and the counter change only in the step that starts the one    *)
(* handler run.                                                            *)
(***************************************************************************)
C11_SingleTick ==
    /\ [](active <= 1 /\ ~(active > 0 /\ work_due # NoDue))
    /\ [][button_ctx' # button_ctx =>
             /\ active' = active
             /\ work_due' = work_due
             /\ ticks' = ticks
             /\ wifi_connected' = wifi_connected
             /\ reconnect_attempts' = reconnect_attempts]_vars
    /\ [][(main_pc = "done" /\ (wifi_connected' # wifi_connected
                                  \/ reconnect_attempts' # reconnect_attempts)) =>
             HandlerStep /\ active = 0]_vars

\* a run the button interrupted has ended, and exactly its successor is pending
C11_Witness ==
    /\ button_ctx = "running"
    /\ active = 0
    /\ ticks >= 1
    /\ work_due = now + POLLING_INTERVAL

\* the payloads the step appended to the cache file
NewlyCached ==
    [i \in 1..(Len(cache_file') - Len(cache_file)) |-> cache_file'[Len(cache_file) + i]]
\* the "plantId" value of a payload
PayloadId(p) == p[1][2]

(***************************************************************************)
(* C20: once the loop runs, a clear flag always finds the counter low      *)
(* enough for the next handler run to call connect_wifi, and under the     *)
(* timer's fairness a handler run that calls it follows.                   *)
(***************************************************************************)
C20_RecoveryLiveness ==
    /\ []((main_pc = "done" /\ ~wifi_connected) =>
             reconnect_attempts + 1 < MAX_RECONNECT_ATTEMPTS)
    /\ ((main_pc = "done" /\ ~wifi_connected /\ ticks < MaxTicks) ~> connect_called)

\* the loop started disconnected and its first run reconnected
C20_Witness ==
    /\ main_pc = "done"
    /\ ticks >= 1
    /\ connect_called
    /\ wifi_connected

(***************************************************************************)
(* C12: a handler run attempts a publish exactly when the flag was set at  *)
(* its start; a run that starts with the flag clear sends nothing to the   *)
(* broker and hands its snapshot to the cache.                             *)
(***************************************************************************)
C12_PublishOnlyIfConnected ==
    [][HandlerStep =>
          /\ (pub_ret' # <<>>) <=> wifi_connected
          /\ ~wifi_connected =>
                /\ broker' = broker
                /\ fs_ret' # <<>>
                /\ fs_ret' = <<"ok">> => NewlyCached = <<Payload(data')>>]_vars

\* a run that started disconnected cached its snapshot and published nothing
C12_Witness ==
    /\ ticks = 1
    /\ pub_ret = <<>>
    /\ fs_ret = <<"ok">>
    /\ cache_file = <<Payload(data)>>
    /\ broker = <<>>

(***************************************************************************)
(* C13: a handler run whose publish fails transiently caches the snapshot  *)
(* and leaves the flag clear, so that the next run does not publish.       *)
(***************************************************************************)
C13_FailedPublishDisconnects ==
    [][(HandlerStep /\ pub_ret' = <<-11>>) =>
          /\ fs_ret' = <<"ok">> => NewlyCached = <<Payload(data')>>
          /\ ~wifi_connected']_vars

(***************************************************************************)
(* C14: a handler run on the caching path increments the counter, and it   *)
(* calls connect_wifi exactly when the incremented counter is below        *)
(* MAX_RECONNECT_ATTEMPTS.                                                 *)
(***************************************************************************)
C14_ConnectIffBelowBound ==
    [][(HandlerStep /\ ~wifi_connected) =>
          /\ reconnect_attempts' = reconnect_attempts + 1
          /\ connect_called' <=> (reconnect_attempts' < MAX_RECONNECT_ATTEMPTS)]_vars

\* the caching path counted its first attempt and called connect_wifi
C14_Witness ==
    /\ fs_ret # <<>>
    /\ pub_ret = <<>>
    /\ reconnect_attempts = 1
    /\ connect_called

(***************************************************************************)
(* C15: the counter goes down only in a handler run whose publish          *)
(* succeeded or in a step that turns the flag on (a restart aside); a      *)
(* failed publish leaves it as it was or higher.                           *)
(***************************************************************************)
C15_CounterLoweredOnlyOnSuccess ==
    [][reconnect_attempts' < reconnect_attempts =>
          \/ boots' # boots
          \/ HandlerStep /\ pub_ret' = <<0>>
          \/ ~wifi_connected /\ wifi_connected']_vars

(***************************************************************************)
(* C16: every snapshot a handler run publishes or caches carries the       *)
(* stored identifier, which is not empty, in its "plantId" field and in    *)
(* the topic it is published on.                                           *)
(***************************************************************************)
C16_SnapshotsCarryIdentity ==
    [][HandlerStep =>
          /\ settings_uuid # NoValue
          /\ \A i \in 1..Len(NewlyCached) : PayloadId(NewlyCached[i]) = settings_uuid
          /\ \A i \in (Len(broker) + 1)..Len(broker') :
                /\ PayloadId(broker'[i].payload) = settings_uuid
                /\ broker'[i].topic = <<MQTT_PUBLISH_TOPIC, settings_uuid>>]_vars

\* the value of a lowercase hexadecimal digit
HexValue(c) ==
    CASE c = "0" -> 0 [] c = "1" -> 1 [] c = "2" -> 2 [] c = "3" -> 3
      [] c = "4" -> 4 [] c = "5" -> 5 [] c = "6" -> 6 [] c = "7" -> 7
      [] c = "8" -> 8 [] c = "9" -> 9 [] c = "a" -> 10 [] c = "b" -> 11
      [] c = "c" -> 12 [] c = "d" -> 13 [] c = "e" -> 14 [] c = "f" -> 15
LowerHex == {"0", "1", "2", "3", "4", "5", "6", "7", "8", "9",
             "a", "b", "c", "d", "e", "f"}
\* where the two digits of the j-th byte start in the 8-4-4-4-12 rendering
DigitsAt(j) ==
    2 * j - 1 + (IF j > 4 THEN 1 ELSE 0) + (IF j > 6 THEN 1 ELSE 0)
              + (IF j > 8 THEN 1 ELSE 0) + (IF j > 10 THEN 1 ELSE 0)
\* the j-th byte read back from the rendering
ByteAt(str, j) == 16 * HexValue(str[DigitsAt(j)]) + HexValue(str[DigitsAt(j) + 1])
\* str is the version 4 rendering of the random bytes rand
ValidV4(rand, str) ==
    /\ Len(str) = 36
    /\ \A k \in 1..36 :
          IF k \in {9, 14, 19, 24} THEN str[k] = "-" ELSE str[k] \in LowerHex
    /\ ByteAt(str, 7) \div 16 = 4
    /\ ByteAt(str, 7) % 16 = rand[7] % 16
    /\ ByteAt(str, 9) \div 64 = 2
    /\ ByteAt(str, 9) % 64 = rand[9] % 64
    /\ \A j \in (1..16) \ {7, 9} : ByteAt(str, j) = rand[j]

(***************************************************************************)
(* C17: whatever the sixteen random bytes, the identifier stored is their  *)
(* version 4 rendering: 36 characters, hyphens after 8, 13, 18 and 23      *)
(* characters, lowercase hexadecimal elsewhere, the seventh byte with high *)
(* nibble 4 and its low nibble kept, the ninth byte with top bits 10 and   *)
(* its low six bits kept, every other byte as drawn; and it is stored in   *)
(* the step that generates it, before main goes on.                        *)
(***************************************************************************)
C17_UuidV4 ==
    [][settings_uuid' # settings_uuid =>
          /\ main_pc = "uuid"
          /\ main_pc' = "devices"
          /\ ValidV4(entropy, settings_uuid')]_vars

\* random bytes 0xff at both places gave 4f and bf
C17_Witness ==
    /\ main_pc = "devices"
    /\ load_ret = <<-5>>
    /\ Len(settings_uuid) = 36
    /\ settings_uuid[15] = "4" /\ settings_uuid[16] = "f"
    /\ settings_uuid[20] = "b" /\ settings_uuid[21] = "f"

(***************************************************************************)
(* C18: a handler run in which the cache file cannot be opened or written  *)
(* still retains its snapshot for later delivery, and ends rescheduled.    *)
(***************************************************************************)
C18_StoreFailureRetains ==
    [][(HandlerStep /\ fs_ret' \in {<<"open_fail">>, <<"write_fail">>}) =>
          /\ \E i \in 1..Len(cache_file') : cache_file'[i] = Payload(data')
          /\ work_due' # NoDue]_vars

(***************************************************************************)
(* C19: the start of the next handler run is a whole, positive number of   *)
(* polling intervals after the start of this one, whatever the run took.   *)
(***************************************************************************)
C19_StartToStartInterval ==
    [][HandlerStep =>
          /\ work_due' > work_due
          /\ (work_due' - work_due) % POLLING_INTERVAL = 0]_vars

(***************************************************************************)
(* C21: a handler run appends at most one record to the cache file, and    *)
(* unless the cache file failed it ends with its snapshot in exactly one   *)
(* place: accepted by the broker once, or appended to the cache once,      *)
(* never both and never neither.                                           *)
(***************************************************************************)
C21_NoLossNoDuplicate ==
    [][HandlerStep =>
          /\ Len(NewlyCached) <= 1
          /\ Len(NewlyDelivered) <= 1
          /\ Len(NewlyCached) + Len(NewlyDelivered) <= 1
          /\ fs_ret' \in {<<>>, <<"ok">>} =>
                \/ NewlyDelivered = <<Payload(data')>> /\ NewlyCached = <<>>
                \/ NewlyCached = <<Payload(data')>> /\ NewlyDelivered = <<>>]_vars

\* a publish failed for good and the snapshot went to the cache instead
C21_Witness ==
    /\ pub_ret = <<-22>>
    /\ fs_ret = <<"ok">>
    /\ Len(cache_file) = 1
    /\ cache_file[1] = Payload(data)
    /\ broker = <<>>

\* what main calls, in its order, when every device is there
BootOrder ==
    <<"generate_and_store_uuid", "ble_provisioning_init", "connect_wifi",
      "aws_mqtt_init", "k_work_schedule">>
\* what main reports before it returns -1
MissingReports ==
    {"I2C: Device not found.", "GPIO: LED device not found.", "ADC: Device not ready."}

(***************************************************************************)
(* C22: a handler run is pending or has run only when main has gone        *)
(* through the UUID, connect_wifi, aws_mqtt_init and then k_work_schedule, *)
(* each once and in this order; when main reported a missing I2C, LED or   *)
(* ADC device it has returned, nothing is scheduled, no run happens and    *)
(* main does nothing more until the next boot; and when mqtt_connect       *)
(* failed the flag is clear until the first run, which takes the caching   *)
(* path.                                                                   *)
(***************************************************************************)
C22_StartupOrdering ==
    /\ []((work_due # NoDue \/ HandlerRan) => main_log = BootOrder)
    /\ []((\E i \in 1..Len(main_log) : main_log[i] \in MissingReports) =>
             main_pc = "error" /\ work_due = NoDue /\ ~HandlerRan)
    /\ [][main_pc = "error" => (main_pc' = "error" \/ boots' # boots)]_vars
    /\ []((main_pc \in {"schedule", "done"} /\ ~HandlerRan
                /\ conn_ret \notin {<<>>, <<0>>}) => ~wifi_connected)
    /\ [][(HandlerStep /\ ~HandlerRan /\ conn_ret \notin {<<>>, <<0>>}) =>
             pub_ret' = <<>> /\ fs_ret' # <<>>]_vars

\* mqtt_connect failed at startup and the first run cached its snapshot
C22_Witness ==
    /\ main_log = BootOrder
    /\ conn_ret = <<-111>>
    /\ main_pc = "done"
    /\ pub_ret = <<>>
    /\ fs_ret = <<"ok">>
    /\ work_due # NoDue

(***************************************************************************)
(* C23: a call of button_pressed stores the current 32-bit uptime in       *)
(* last_press_time when the difference of the two, taken modulo 2^32, is   *)
(* above BUTTON_DEBOUNCE_TIME, and leaves last_press_time alone otherwise;  *)
(* when less than one turn of the counter has passed since the press last  *)
(* accepted (or since boot), across a wraparound or not, the press is      *)
(* accepted exactly when more than BUTTON_DEBOUNCE_TIME ms have passed.    *)
(***************************************************************************)
C23_Debounce ==
    [][presses' = presses + 1 =>
          LET \* the 32-bit uptime and the 32-bit difference, as numbers of
              \* whole 65536 ms and the ms left over
              cur_hi == press_uptime'[1] % 65536
              cur_lo == press_uptime'[2]
              borrow == IF cur_lo < last_press_time[2] THEN 1 ELSE 0
              diff_hi == (cur_hi - last_press_time[1] - borrow + 65536) % 65536
              diff_lo == (cur_lo - last_press_time[2] + 65536) % 65536
              diff_above == diff_hi > 0 \/ diff_lo > BUTTON_DEBOUNCE_TIME
              \* the time that really passed since the press last accepted
              carry == IF press_uptime'[2] < accepted_at[2] THEN 1 ELSE 0
              elapsed_hi == press_uptime'[1] - accepted_at[1] - carry
              elapsed_lo == (press_uptime'[2] - accepted_at[2] + 65536) % 65536
              elapsed_above == elapsed_hi > 0 \/ elapsed_lo > BUTTON_DEBOUNCE_TIME
              accepted == /\ last_press_time' = <<cur_hi, cur_lo>>
                          /\ last_press_time' # last_press_time
          IN  /\ diff_above => last_press_time' = <<cur_hi, cur_lo>>
              /\ ~diff_above => last_press_time' = last_press_time
              /\ elapsed_hi < 65536 => (accepted <=> elapsed_above)]_vars

\* a press after the counter wrapped was accepted against one from before:
\* the uptime is 2^32 + 1 and last_press_time is 1
C23_Witness ==
    /\ presses = 2
    /\ press_uptime = <<65536, 1>>
    /\ last_press_time = <<0, 1>>
    /\ accepted_at = press_uptime

====
